---- MODULE Spec2Model ----
(***************************************************************************)
(* Token-bucket rate limiter of the Flarenet backend                       *)
(* (src/middlewares/tokenBucketLimiter.js) together with the health signal *)
(* of the shared Redis client (src/utils/redisClient.js) and the limiter   *)
(* of POST /chat (src/routes/chatBotRoutes.js).                            *)
(*                                                                         *)
(* Units.  The code computes with JavaScript doubles; the model computes   *)
(* the same expressions exactly, on integers:                              *)
(*   - time is in milliseconds, as Date.now() gives it;                    *)
(*   - a refill rate is in milli-tokens per second (0.5 tokens/s = 500);   *)
(*   - a token count is in micro-tokens (1 token = Micro), so that         *)
(*     (now - lastRefill) / 1000 * refillRate tokens is                    *)
(*     (now - lastRefill) * refillRate micro-tokens, with no rounding;     *)
(*   - a bucket size is in whole tokens, as the policies give it.          *)
(***************************************************************************)
EXTENDS Integers, Sequences, FiniteSets, TLC

VARIABLES
    clock,          \* the wall clock, what Date.now() returns (ms)
    redisEnabled,   \* redisClient.js: the module flag redisEnabled
    status,         \* redisClient.js: redisClient.status of the ioredis client
    store,          \* the Redis hashes, by key
    cfg,            \* the options createRateLimiter was built with
    pc,             \* where each admission check stands
    chk,            \* the locals of each admission check
    res,            \* what each admission check did to res and next
    run,            \* per key: the decisions returned since the bucket was created
    checks,         \* how many admission checks were started
    serial,         \* what the same checks give when run one after the other
    cloud,          \* the Redis Cloud client module: its flag, counters and client.status
    limiter,        \* the TokenBucketLimiter of the middleware: which client this.redis is
    admits,         \* the timestamps of the checks that were allowed, where they are followed
    retry           \* withRateLimitRetry: its options, its locals and how it ended

vars == <<clock, redisEnabled, status, store, cfg, pc, chk, res, run, checks, serial, cloud, limiter, admits, retry>>

-----------------------------------------------------------------------------
(* Bounds of the model *)

MaxTicks == 2
TickMs == 500
MaxChecks == 3
MaxRun == 4
KeyExpiry == 1
MaxRetriesEnv == 3
MaxRetriesOpt == 2

Procs == {"p1", "p2"}

\* A string the code takes apart (startsWith, substring) is the sequence of
\* its characters.  The identifiers of the model: an API key, an IPv4
\* address, a link-local IPv6 address with its zone (an interface name), and
\* the empty string.
Identifiers == { <<"K", "1">>, <<"1">>, <<"1", "%", "E">>, << >> }

\* two callers
TwoIdentifiers == { <<"K", "1">>, <<"1">> }

\* the one caller of the runs that follow a single bucket
OneIdentifier == { <<"K", "1">> }

\* (bucketSize in tokens, refillRate in milli-tokens per second)
Policies ==
    { [bucketSize |-> 1, refillRate |-> 2000],
      [bucketSize |-> 4, refillRate |-> 500] }

\* what a misconfigured policy resolver returns: no capacity, no refill
BadPolicies ==
    { [bucketSize |-> 0, refillRate |-> 2000],
      [bucketSize |-> 1, refillRate |-> 0] }

-----------------------------------------------------------------------------
(* Arithmetic *)

Micro == 1000 * 1000

\* Number.POSITIVE_INFINITY: above every number the model computes
Infinity == 1000 * Micro

Min(a, b) == IF a <= b THEN a ELSE b

\* Math.floor(a / b) for b > 0
FloorDiv(a, b) == a \div b

\* Math.ceil(a / b) for b > 0
CeilDiv(a, b) == -((-a) \div b)

-----------------------------------------------------------------------------
(* The store *)

KeyPrefix == "ratelimit:"

\* Mutant of GetKey: every identifier is given the same key.
GetKeyShared(identifier) == <<KeyPrefix, <<"K", "1">> >>

\* getKey, lines 37-43: `${this.keyPrefix}${identifier}`
GetKey(identifier) == <<KeyPrefix, identifier>>

Keys == { GetKey(i) : i \in Identifiers }

NoTTL == -1

Absent ==
    [exists |-> FALSE, tokens |-> 0, lastRefill |-> 0, hasLimits |-> FALSE,
     bucketSize |-> 0, refillRate |-> 0, ttl |-> NoTTL]

\* HMSET key tokens lastRefill bucketSize refillRate: creates the hash or
\* overwrites the four fields; a key's time-to-live is left as it is.
HmsetNewBucket(h, b) ==
    [h EXCEPT !.exists = TRUE, !.tokens = b.tokens, !.lastRefill = b.lastRefill,
              !.hasLimits = TRUE, !.bucketSize = b.bucketSize,
              !.refillRate = b.refillRate]

\* HMSET key tokens lastRefill: creates the hash (with these two fields only)
\* or overwrites the two fields.
HmsetTokens(h, tokens, now) ==
    [h EXCEPT !.exists = TRUE, !.tokens = tokens, !.lastRefill = now]

\* EXPIRE key seconds: no effect on a key that does not exist.
ExpireKey(h, now) ==
    IF h.exists THEN [h EXCEPT !.ttl = now + KeyExpiry * 1000] ELSE h

\* Redis drops a key once its time-to-live has run out.
Purge(s, now) ==
    [k \in Keys |-> IF s[k].exists /\ s[k].ttl # NoTTL /\ s[k].ttl <= now
                    THEN Absent ELSE s[k]]

-----------------------------------------------------------------------------
(* redisClient.js *)

isRedisAvailable == redisEnabled /\ status = "ready"

-----------------------------------------------------------------------------
(* TokenBucketLimiter *)

NoLimits == [bucketSize |-> 0, refillRate |-> 0]

NoBucket == [tokens |-> 0, lastRefill |-> 0, bucketSize |-> 0, refillRate |-> 0]

NoResult == [allowed |-> FALSE, retryAfter |-> 0, remaining |-> 0]

\* Mutant of NewBucket: the new bucket starts empty.
NewBucketEmpty(limits, now) ==
    [tokens |-> 0, lastRefill |-> now,
     bucketSize |-> limits.bucketSize, refillRate |-> limits.refillRate]

\* getBucket, lines 56-61 and 93-98: the full bucket of the caller's policy
NewBucket(limits, now) ==
    [tokens |-> limits.bucketSize * Micro, lastRefill |-> now,
     bucketSize |-> limits.bucketSize, refillRate |-> limits.refillRate]

\* getBucket, lines 73-84: the hash as numbers; a field the hash lacks is
\* replaced by the caller's value.  Every field the limiter writes is the
\* decimal form of a number, which parseFloat / parseInt read back unchanged.
ParseBucket(h, limits, now) ==
    [tokens |-> h.tokens,
     lastRefill |-> h.lastRefill,
     bucketSize |-> IF h.hasLimits THEN h.bucketSize ELSE limits.bucketSize,
     refillRate |-> IF h.hasLimits THEN h.refillRate ELSE limits.refillRate]

\* Mutant of Refill: the refilled count is not capped at the bucket size.
RefillUncapped(bucket, now) ==
    bucket.tokens + (now - bucket.lastRefill) * bucket.refillRate

\* isAllowed, lines 131-136
Refill(bucket, now) ==
    Min(bucket.bucketSize * Micro,
        bucket.tokens + (now - bucket.lastRefill) * bucket.refillRate)

\* Mutant of TimeToNextToken: the time to a whole token, whatever is left.
TimeToNextTokenFromEmpty(newTokens, refillRate) ==
    CeilDiv(Micro, 1000 * refillRate)

\* Mutant of TimeToNextToken: Math.floor instead of Math.ceil.
TimeToNextTokenFloor(newTokens, refillRate) ==
    FloorDiv(Micro - newTokens, 1000 * refillRate)

\* isAllowed, line 147: Math.ceil((1 - newTokens) / bucket.refillRate), for
\* newTokens < 1 and refillRate >= 0; a positive number divided by 0 is
\* Infinity
TimeToNextToken(newTokens, refillRate) ==
    IF refillRate = 0 THEN Infinity
    ELSE CeilDiv(Micro - newTokens, 1000 * refillRate)

\* Mutant of Decide: a denied check writes back the count it read.
DecideDenyForgetsRefill(bucket, now) ==
    LET newTokens == Refill(bucket, now) IN
    IF newTokens < Micro
    THEN [allowed |-> FALSE,
          retryAfter |-> TimeToNextToken(newTokens, bucket.refillRate),
          remaining |-> 0, tokens |-> bucket.tokens]
    ELSE [allowed |-> TRUE, retryAfter |-> 0,
          remaining |-> FloorDiv(newTokens - Micro, Micro),
          tokens |-> newTokens - Micro]

\* Mutant of Decide: an allowed check takes no token.
DecideTakesNothing(bucket, now) ==
    LET newTokens == Refill(bucket, now) IN
    IF newTokens < Micro
    THEN [allowed |-> FALSE,
          retryAfter |-> TimeToNextToken(newTokens, bucket.refillRate),
          remaining |-> 0, tokens |-> newTokens]
    ELSE [allowed |-> TRUE, retryAfter |-> 0,
          remaining |-> FloorDiv(newTokens - Micro, Micro),
          tokens |-> newTokens]

\* isAllowed, lines 146-190: the decision and the token count written
Decide(bucket, now) ==
    LET newTokens == Refill(bucket, now) IN
    IF newTokens < Micro
    THEN [allowed |-> FALSE,
          retryAfter |-> TimeToNextToken(newTokens, bucket.refillRate),
          remaining |-> 0, tokens |-> newTokens]
    ELSE [allowed |-> TRUE, retryAfter |-> 0,
          remaining |-> FloorDiv(newTokens - Micro, Micro),
          tokens |-> newTokens - Micro]

-----------------------------------------------------------------------------
(* createRateLimiter: the middleware *)

NoBody == [error |-> "", retryAfter |-> 0]

NoResponse ==
    [status |-> 0, body |-> NoBody, headers |-> {}, limit |-> 0,
     remaining |-> 0, retryAfter |-> 0, nextCalls |-> 0, nextErrors |-> 0,
     calls |-> << >>]

\* lines 234-239
SetsRetryAfter(result) == result.retryAfter > 0

\* the calls on res and next, in the order lines 231-251 make them
SetHeaders(result) ==
    <<"set X-RateLimit-Remaining", "set X-RateLimit-Limit">>
    \o (IF SetsRetryAfter(result) THEN <<"set Retry-After">> ELSE << >>)

\* Mutant of Respond: the status is written before the headers are set.
RespondStatusFirst(result, limits) ==
    [status |-> IF result.allowed THEN 0 ELSE 429,
     body |-> IF result.allowed THEN NoBody
              ELSE [error |-> "Too Many Requests", retryAfter |-> result.retryAfter],
     headers |-> {"X-RateLimit-Remaining", "X-RateLimit-Limit"}
                 \cup (IF SetsRetryAfter(result) THEN {"Retry-After"} ELSE {}),
     limit |-> limits.bucketSize,
     remaining |-> result.remaining,
     retryAfter |-> IF SetsRetryAfter(result) THEN result.retryAfter ELSE 0,
     nextCalls |-> IF result.allowed THEN 1 ELSE 0,
     nextErrors |-> 0,
     calls |-> (IF result.allowed THEN << >> ELSE <<"status">>)
               \o SetHeaders(result)
               \o (IF result.allowed THEN <<"next">> ELSE <<"json">>)]

\* Mutant of Respond: the 429 branch does not return, next() is called too.
RespondFallThrough(result, limits) ==
    [status |-> IF result.allowed THEN 0 ELSE 429,
     body |-> IF result.allowed THEN NoBody
              ELSE [error |-> "Too Many Requests", retryAfter |-> result.retryAfter],
     headers |-> {"X-RateLimit-Remaining", "X-RateLimit-Limit"}
                 \cup (IF SetsRetryAfter(result) THEN {"Retry-After"} ELSE {}),
     limit |-> limits.bucketSize,
     remaining |-> result.remaining,
     retryAfter |-> IF SetsRetryAfter(result) THEN result.retryAfter ELSE 0,
     nextCalls |-> 1,
     nextErrors |-> 0,
     calls |-> SetHeaders(result)
               \o (IF result.allowed THEN << >> ELSE <<"status", "json">>)
               \o <<"next">>]

\* lines 230-251: headers, then 429 or next()
Respond(result, limits) ==
    [status |-> IF result.allowed THEN 0 ELSE 429,
     body |-> IF result.allowed THEN NoBody
              ELSE [error |-> "Too Many Requests", retryAfter |-> result.retryAfter],
     headers |-> {"X-RateLimit-Remaining", "X-RateLimit-Limit"}
                 \cup (IF SetsRetryAfter(result) THEN {"Retry-After"} ELSE {}),
     limit |-> limits.bucketSize,
     remaining |-> result.remaining,
     retryAfter |-> IF SetsRetryAfter(result) THEN result.retryAfter ELSE 0,
     nextCalls |-> IF result.allowed THEN 1 ELSE 0,
     nextErrors |-> 0,
     calls |-> SetHeaders(result)
               \o (IF result.allowed THEN <<"next">> ELSE <<"status", "json">>)]

\* Mutant of Caught: the pass-through branch falls into the rejecting one.
CaughtFallThrough(failOpen, available) ==
    IF failOpen \/ ~available
    THEN [NoResponse EXCEPT !.nextCalls = 1, !.nextErrors = 1,
                            !.calls = <<"next", "next(error)">>]
    ELSE [NoResponse EXCEPT !.nextErrors = 1, !.calls = <<"next(error)">>]

\* lines 252-266: the catch block
Caught(failOpen, available) ==
    IF failOpen \/ ~available
    THEN [NoResponse EXCEPT !.nextCalls = 1, !.calls = <<"next">>]
    ELSE [NoResponse EXCEPT !.nextErrors = 1, !.calls = <<"next(error)">>]

-----------------------------------------------------------------------------
(* chatBotRoutes.js: the limiter of POST /chat *)

\* a header or body field the request does not have (undefined)
Undefined == [present |-> FALSE, value |-> << >>]

\* a field the request has, with its string
Str(v) == [present |-> TRUE, value |-> v]

\* the left operand of || is taken unless it is undefined or ''
Truthy(f) == f.present /\ f.value # << >>

\* '::ffff:'
V4Mapped == <<":", ":", "f", "f", "f", "f", ":">>

\* String.prototype.startsWith
StartsWith(str, prefix) ==
    Len(str) >= Len(prefix) /\ SubSeq(str, 1, Len(prefix)) = prefix

\* String.prototype.substring(n)
Substring(str, n) == SubSeq(str, n + 1, Len(str))

NoRequest == [apiKey |-> Undefined, ip |-> << >>, plan |-> Undefined]

\* the plan names
Free == <<"f", "r", "e", "e">>
Pro == <<"p", "r", "o">>
Enterprise == <<"e", "n", "t", "e", "r", "p", "r", "i", "s", "e">>
Gold == <<"g", "o", "l", "d">>

\* The requests of the model: the x-api-key header absent, empty or set; the
\* client address an IPv4-mapped one, the same IPv4 address as the socket of
\* an IPv4 listener gives it, or a link-local one; the plan absent, known or
\* unknown.
Requests ==
    [apiKey : {Undefined, Str(<< >>), Str(<<"K", "1">>)},
     ip : {V4Mapped \o <<"1">>, <<"1">>, <<"1", "%", "E">>},
     plan : {Undefined, Str(Free), Str(Pro), Str(Gold)}]

\* Mutant of KeyGenerator: the address is used as it is.
KeyGeneratorRawIp(req) ==
    IF Truthy(req.apiKey) THEN req.apiKey.value ELSE req.ip

\* chatBotRoutes.js lines 12-18
KeyGenerator(req) ==
    IF Truthy(req.apiKey)
    THEN req.apiKey.value
    ELSE IF StartsWith(req.ip, V4Mapped) THEN Substring(req.ip, 7) ELSE req.ip

\* chatBotRoutes.js lines 22-26
PlanTable ==
    (Free :> [bucketSize |-> 10, refillRate |-> 100])
    @@ (Pro :> [bucketSize |-> 30, refillRate |-> 500])
    @@ (Enterprise :> [bucketSize |-> 60, refillRate |-> 1000])

\* chatBotRoutes.js lines 19-29.  Line 27 reads limits[userPlan].bucketSize
\* before line 28 falls back to limits.free: for a plan the table lacks,
\* limits[userPlan] is undefined and line 27 throws a TypeError.
PlanLimiter(req) ==
    LET userPlan == IF Truthy(req.plan) THEN req.plan.value ELSE Free IN
    IF userPlan \in DOMAIN PlanTable
    THEN [threw |-> FALSE, limits |-> PlanTable[userPlan]]
    ELSE [threw |-> TRUE, limits |-> NoLimits]

-----------------------------------------------------------------------------
(* The locals of one admission check *)

IdleChk ==
    [req |-> NoRequest,
     ident |-> << >>, limits |-> NoLimits, now |-> 0, nowGB |-> 0,
     bucket |-> NoBucket, created |-> FALSE, opFailed |-> FALSE,
     failedOp |-> "none", path |-> "none", result |-> NoResult, tokens |-> 0]

\* isAllowed has returned: its locals are gone, the decision is kept
Returned(c, result, tokens) ==
    [c EXCEPT !.now = 0, !.nowGB = 0, !.bucket = NoBucket, !.result = result,
              !.tokens = tokens, !.path = "decided"]

\* isAllowed has thrown
Thrown(c) ==
    [c EXCEPT !.now = 0, !.nowGB = 0, !.bucket = NoBucket, !.opFailed = TRUE,
              !.failedOp = "exec", !.path = "caught"]

\* The run of decisions on one key: the timestamp of the check that created
\* the bucket, the timestamp of the latest decision, and how many decisions
\* were returned since the creation (counted up to MaxRun).
NoRun == [start |-> 0, last |-> 0, n |-> 0]

Record(r, created, now) ==
    IF created
    THEN [start |-> now, last |-> now, n |-> 1]
    ELSE [r EXCEPT !.last = now, !.n = Min(r.n + 1, MaxRun)]

\* The admissions of a run: for each check that was allowed, the time it
\* began (its timestamp of line 124) and the time its decision was returned,
\* in the order the decisions were returned; followed only where admissions
\* are counted over time (on).  last is the latest decision returned.
NoAdmits ==
    [on |-> FALSE, at |-> << >>,
     last |-> [any |-> FALSE, allowed |-> FALSE, retryAfter |-> 0, returned |-> 0]]

Admit(a, result, now, returned) ==
    IF ~a.on THEN a
    ELSE [at |-> IF result.allowed
                 THEN Append(a.at, [began |-> now, returned |-> returned])
                 ELSE a.at,
          on |-> TRUE,
          last |-> [any |-> TRUE, allowed |-> result.allowed,
                    retryAfter |-> result.retryAfter, returned |-> returned]]

\* The reference run: the same admission checks, each executed whole at
\* its own timestamp (line 124), one after the other.  It is followed only
\* where the admissions of interleaved checks are compared with it (on).
\*   hash      the bucket the reference run has stored
\*   admitted  how many checks the reference run allowed
\*   allowed   how many checks isAllowed allowed
\*   burst     how many checks ran while another check was in flight
\*   inBurst   the checks in flight that are counted in burst
\*   expired   a bucket's time-to-live ran out during the run
NoSerial ==
    [on |-> FALSE, hash |-> Absent, admitted |-> 0, allowed |-> 0,
     burst |-> 0, inBurst |-> {}, expired |-> FALSE]

\* isAllowed lines 123-191 run without interruption on the hash h at time now
SerialCheck(h, limits, now) ==
    LET size == IF h.exists /\ h.hasLimits THEN h.bucketSize ELSE limits.bucketSize
        rate == IF h.exists /\ h.hasLimits THEN h.refillRate ELSE limits.refillRate
        tokens == IF h.exists THEN h.tokens ELSE limits.bucketSize * Micro
        lastRefill == IF h.exists THEN h.lastRefill ELSE now
        sum == tokens + (now - lastRefill) * rate
        newTokens == IF sum < size * Micro THEN sum ELSE size * Micro
        allowed == newTokens >= Micro
    IN  [allowed |-> allowed,
         hash |-> [exists |-> TRUE,
                   tokens |-> IF allowed THEN newTokens - Micro ELSE newTokens,
                   lastRefill |-> now, hasLimits |-> TRUE,
                   bucketSize |-> size, refillRate |-> rate,
                   ttl |-> now + KeyExpiry * 1000]]

\* a check of p starts at time now
SerialBegin(s, p, limits, now) ==
    IF ~s.on \/ pc'[p] # "getBucket" THEN s
    ELSE LET c == SerialCheck(s.hash, limits, now)
             others == { q \in Procs \ {p} : pc[q] \notin {"idle", "done"} }
             counted == s.inBurst \ {p}
             flight == IF others = {} THEN {} ELSE others \cup {p}
         IN  [s EXCEPT !.hash = c.hash,
                       !.admitted = @ + (IF c.allowed THEN 1 ELSE 0),
                       !.burst = @ + Cardinality(flight \ counted),
                       !.inBurst = counted \cup flight]

\* isAllowed returns to p
SerialExec(s, allowed) ==
    IF ~s.on THEN s
    ELSE [s EXCEPT !.allowed = @ + (IF allowed THEN 1 ELSE 0)]

\* the key of the reference run expires as any key does
SerialTick(s, now) ==
    IF ~s.on THEN s
    ELSE LET gone == s.hash.exists /\ s.hash.ttl <= now IN
         [s EXCEPT !.hash = IF gone THEN Absent ELSE @,
                   !.expired = @ \/ gone \/ Purge(store, now) # store]

-----------------------------------------------------------------------------
(* The limiter object *)

\* constructor lines 5-14: this.redis, given whether options.redis is set
Constructor(injected) ==
    [injected |-> injected,
     redis |-> IF ~isRedisAvailable THEN "getRedisClient()"
               ELSE IF injected THEN "options.redis" ELSE "getRedisClient()"]

\* The limiter createRateLimiter builds without options.redis, as
\* chatBotRoutes.js does.
BuiltLimiter == [injected |-> FALSE, redis |-> "getRedisClient()"]

-----------------------------------------------------------------------------
(* The Redis Cloud client module: the variant of redisClient.js with a retry
   strategy and a count of connection attempts *)

MAX_CONNECTION_ATTEMPTS == 5

ErrorCodes == {"ECONNREFUSED", "ETIMEDOUT", "ECONNRESET"}

\* retryStrategy returns null: no reconnection is scheduled
Null == 0 - 1

\* Module state after getRedisClient(): initRedisClient ran once, the client
\* is connecting.  strategy is REDIS_RETRY_STRATEGY === 'true', maxRetries is
\* parseInt(REDIS_MAX_RETRIES); retryAttempts is the count ioredis hands to
\* retryStrategy; handlers is FALSE for the client built from REDIS_URL, which
\* is returned before any event handler is attached.  errorSince and
\* reconnects only observe: an error event
\* since the last connect or ready event, reconnections scheduled since the
\* last ready event.
InitCloud ==
    [redisEnabled |-> TRUE, status |-> "connecting", connectionAttempts |-> 1,
     retryAttempts |-> 0, strategy |-> TRUE, maxRetries |-> 1, handlers |-> TRUE,
     errorSince |-> FALSE, reconnects |-> 0]

\* Mutant of RetryStrategy: the attempt count is not compared to maxRetries.
RetryStrategyUnbounded(times, c) ==
    IF ~c.strategy THEN Null ELSE Min(times * 500, 10000)

\* retryStrategy: (times) => ...
RetryStrategy(times, c) ==
    IF ~c.strategy THEN Null
    ELSE IF times > c.maxRetries THEN Null
    ELSE Min(times * 500, 10000)

\* isRedisAvailable of the Redis Cloud client module
CloudIsRedisAvailable == cloud.redisEnabled /\ cloud.status = "ready"

-----------------------------------------------------------------------------
(* withRateLimitRetry: the wrapper of calls to the Groq API *)

\* parseInt of a Retry-After header that holds a date, not a number
NaN == 0 - 1

\* absent: no such property on the error, no such header
None == 0 - 2

\* What apiCallFn rejects with: error.status, error.response.status, what
\* error.message is ("none" when the value thrown has no message), and the
\* retry-after header in seconds.
Errors ==
    [status : {None, 429, 500}, response : {None, 429},
     message : {"none", "rate limit exceeded", "timeout"},
     retryAfter : {None, NaN, 3}]

NoError == [status |-> None, response |-> None, message |-> "none", retryAfter |-> None]

\* options and locals before the first call; baseDelayMs is 1000
NoRetry ==
    [maxRetries |-> 0, useExponentialBackoff |-> TRUE, pc |-> "call", attempt |-> 0,
     calls |-> 0, waits |-> 0, delayMs |-> 0, error |-> NoError, thrown |-> "none"]

\* lines 501-503: the test reads error.message only when neither status is
\* 429; on a value without message, includes is called on undefined
IsRateLimit(error) ==
    IF error.status = 429 \/ error.response = 429 THEN "true"
    ELSE IF error.message = "none" THEN "TypeError"
    ELSE IF error.message = "rate limit exceeded" THEN "true" ELSE "false"

RECURSIVE Pow2(_)
Pow2(n) == IF n = 0 THEN 1 ELSE 2 * Pow2(n - 1)

\* lines 511-525: the delay handed to setTimeout; Math.max with NaN is NaN
FinalDelayMs(error, attempt, useExponentialBackoff) ==
    LET delayMs == IF useExponentialBackoff THEN 1000 * Pow2(attempt - 1)
                   ELSE 1000 * attempt
        retryAfterMs == IF error.retryAfter = None THEN delayMs
                        ELSE IF error.retryAfter = NaN THEN NaN
                        ELSE error.retryAfter * 1000
    IN IF retryAfterMs = NaN THEN NaN
       ELSE IF delayMs >= retryAfterMs THEN delayMs ELSE retryAfterMs

\* lines 497-539: the catch block for what apiCallFn rejected with
Catch(r, error) ==
    LET attempt == r.attempt + 1
        isRateLimit == IsRateLimit(error)
        c == [r EXCEPT !.attempt = attempt, !.calls = @ + 1, !.error = error]
    IN IF isRateLimit = "TypeError" THEN [c EXCEPT !.pc = "thrown", !.thrown = "TypeError"]
       ELSE IF attempt > r.maxRetries \/ isRateLimit = "false"
       THEN [c EXCEPT !.pc = "thrown", !.thrown = "error"]
       ELSE [c EXCEPT !.pc = "wait", !.waits = @ + 1,
                      !.delayMs = FinalDelayMs(error, attempt, r.useExponentialBackoff)]

-----------------------------------------------------------------------------
(* Initial states *)

InitBase ==
    /\ clock = 0
    /\ redisEnabled = TRUE
    /\ status = "ready"
    /\ store = [k \in Keys |-> Absent]
    /\ pc = [p \in Procs |-> "idle"]
    /\ chk = [p \in Procs |-> IdleChk]
    /\ res = [p \in Procs |-> NoResponse]
    /\ run = [k \in Keys |-> NoRun]
    /\ checks = 0
    /\ serial = NoSerial
    /\ retry = NoRetry
    /\ admits = NoAdmits
    /\ limiter = BuiltLimiter
    /\ cloud = InitCloud

\* Several instances, callers of different plans, the store reachable.
Init ==
    /\ InitBase
    /\ cfg = [failOpen |-> FALSE, policies |-> Policies, idents |-> OneIdentifier]

\* One caller with one policy, one admission check at a time.
InitSeq ==
    /\ InitBase
    /\ cfg \in { [failOpen |-> FALSE, policies |-> {pol}, idents |-> OneIdentifier] :
                 pol \in Policies }

\* One admission check at a time, either degradation mode, a store that can
\* fail and a connection that can drop.
InitMw ==
    /\ InitBase
    /\ cfg \in { [failOpen |-> f, policies |-> Policies, idents |-> OneIdentifier] :
                 f \in BOOLEAN }

\* The limiter of POST /chat as chatBotRoutes.js builds it.
InitChat ==
    /\ InitBase
    /\ cfg = [failOpen |-> FALSE,
              policies |-> { PlanTable[plan] : plan \in DOMAIN PlanTable },
              idents |-> { KeyGenerator(req) : req \in Requests }]

\* Several instances, one caller, one plan; the reference run is followed.
InitBurst ==
    /\ clock = 0
    /\ redisEnabled = TRUE
    /\ status = "ready"
    /\ store = [k \in Keys |-> Absent]
    /\ pc = [p \in Procs |-> "idle"]
    /\ chk = [p \in Procs |-> IdleChk]
    /\ res = [p \in Procs |-> NoResponse]
    /\ run = [k \in Keys |-> NoRun]
    /\ checks = 0
    /\ serial = [NoSerial EXCEPT !.on = TRUE]
    /\ retry = NoRetry
    /\ admits = NoAdmits
    /\ limiter = BuiltLimiter
    /\ cloud = InitCloud
    /\ cfg \in { [failOpen |-> FALSE, policies |-> {pol}, idents |-> OneIdentifier] :
                 pol \in Policies }

\* One admission check at a time; the key generator can return the empty
\* string and the policy resolver a capacity or a rate of 0.
InitGuard ==
    /\ InitBase
    /\ cfg = [failOpen |-> FALSE, policies |-> Policies \cup BadPolicies,
              idents |-> { <<"K", "1">>, << >> }]

\* Several instances, two callers on one plan.
InitIso ==
    /\ InitBase
    /\ cfg \in { [failOpen |-> FALSE, policies |-> {pol}, idents |-> TwoIdentifiers] :
                 pol \in Policies }

-----------------------------------------------------------------------------
(* The environment *)

\* Time passes; keys whose time-to-live ran out are gone.
Tick ==
    /\ clock + TickMs <= MaxTicks * TickMs
    /\ clock' = clock + TickMs
    /\ store' = Purge(store, clock + TickMs)
    /\ serial' = SerialTick(serial, clock + TickMs)
    /\ UNCHANGED <<redisEnabled, status, cfg, pc, chk, res, run, checks, cloud, limiter, admits, retry>>

\* Time passes, one tick further than Tick lets it.
TickTtl ==
    /\ clock + TickMs <= (MaxTicks + 1) * TickMs
    /\ clock' = clock + TickMs
    /\ store' = Purge(store, clock + TickMs)
    /\ serial' = SerialTick(serial, clock + TickMs)
    /\ UNCHANGED <<redisEnabled, status, cfg, pc, chk, res, run, checks, cloud, limiter, admits, retry>>

\* client.on('error')
RedisError ==
    /\ redisEnabled
    /\ redisEnabled' = FALSE
    /\ UNCHANGED <<clock, status, store, cfg, pc, chk, res, run, checks, serial, cloud, limiter, admits, retry>>

\* the connection is lost: ioredis sets status to 'close'
RedisClose ==
    /\ status # "close"
    /\ status' = "close"
    /\ UNCHANGED <<clock, redisEnabled, store, cfg, pc, chk, res, run, checks, serial, cloud, limiter, admits, retry>>

\* client.on('connect')
RedisConnect ==
    /\ status = "close"
    /\ status' = "connect"
    /\ redisEnabled' = TRUE
    /\ UNCHANGED <<clock, store, cfg, pc, chk, res, run, checks, serial, cloud, limiter, admits, retry>>

\* client.on('ready')
RedisReady ==
    /\ status = "connect"
    /\ status' = "ready"
    /\ redisEnabled' = TRUE
    /\ UNCHANGED <<clock, store, cfg, pc, chk, res, run, checks, serial, cloud, limiter, admits, retry>>

-----------------------------------------------------------------------------
(* One admission check, step by step.  A step ends where the code reads the *)
(* clock again or waits for the store.                                      *)

\* middleware lines 198-227 and isAllowed line 124: the availability gate,
\* the identifier, the limits, and isAllowed's timestamp
Begin(p) ==
    /\ pc[p] \in {"idle", "done"}
    /\ checks < MaxChecks
    /\ checks' = checks + 1
    /\ IF ~isRedisAvailable
       THEN /\ pc' = [pc EXCEPT ![p] = "done"]
            /\ chk' = [chk EXCEPT ![p] = [IdleChk EXCEPT !.path = "skipped"]]
            /\ res' = [res EXCEPT ![p] = [NoResponse EXCEPT !.nextCalls = 1,
                                                            !.calls = <<"next">>]]
       ELSE \E id \in cfg.idents, lim \in cfg.policies :
            /\ pc' = [pc EXCEPT ![p] = "getBucket"]
            /\ chk' = [chk EXCEPT ![p] =
                          [IdleChk EXCEPT !.ident = id, !.limits = lim, !.now = clock]]
            /\ res' = [res EXCEPT ![p] = NoResponse]
    /\ serial' = SerialBegin(serial, p, chk'[p].limits, clock)
    /\ UNCHANGED <<clock, redisEnabled, status, store, cfg, run, cloud, limiter, admits, retry>>

\* The same for the limiter of POST /chat: keyGenerator and planLimiter are
\* called inside the try block (lines 205-217); what planLimiter throws is
\* caught at line 252.
BeginChat(p) ==
    /\ pc[p] \in {"idle", "done"}
    /\ checks < MaxChecks
    /\ checks' = checks + 1
    /\ IF ~isRedisAvailable
       THEN /\ pc' = [pc EXCEPT ![p] = "done"]
            /\ chk' = [chk EXCEPT ![p] = [IdleChk EXCEPT !.path = "skipped"]]
            /\ res' = [res EXCEPT ![p] = [NoResponse EXCEPT !.nextCalls = 1,
                                                            !.calls = <<"next">>]]
       ELSE \E req \in Requests :
            LET id == KeyGenerator(req)
                lim == PlanLimiter(req)
            IN  IF lim.threw
                THEN /\ pc' = [pc EXCEPT ![p] = "done"]
                     /\ chk' = [chk EXCEPT ![p] =
                                   [IdleChk EXCEPT !.req = req, !.ident = id,
                                                   !.path = "caught"]]
                     /\ res' = [res EXCEPT ![p] =
                                   Caught(cfg.failOpen, isRedisAvailable)]
                ELSE /\ pc' = [pc EXCEPT ![p] = "getBucket"]
                     /\ chk' = [chk EXCEPT ![p] =
                                   [IdleChk EXCEPT !.req = req, !.ident = id,
                                                   !.limits = lim.limits,
                                                   !.now = clock]]
                     /\ res' = [res EXCEPT ![p] = NoResponse]
    /\ UNCHANGED <<clock, redisEnabled, status, store, cfg, run, serial, cloud, limiter, admits, retry>>

\* getBucket lines 47-52: the key, getBucket's own timestamp, HGETALL sent
GetBucketNow(p) ==
    /\ pc[p] = "getBucket"
    /\ pc' = [pc EXCEPT ![p] = "hgetall"]
    /\ chk' = [chk EXCEPT ![p].nowGB = clock]
    /\ UNCHANGED <<clock, redisEnabled, status, store, cfg, res, run, checks, serial, cloud, limiter, admits, retry>>

\* getBucket lines 52-89: the reply of HGETALL
Hgetall(p) ==
    /\ pc[p] = "hgetall"
    /\ LET h == store[GetKey(chk[p].ident)] IN
       IF ~h.exists
       THEN /\ pc' = [pc EXCEPT ![p] = "hmset"]
            /\ chk' = [chk EXCEPT ![p].bucket = NewBucket(chk[p].limits, chk[p].nowGB),
                                  ![p].created = TRUE]
       ELSE /\ pc' = [pc EXCEPT ![p] = "exec"]
            /\ chk' = [chk EXCEPT ![p].bucket =
                          ParseBucket(h, chk[p].limits, chk[p].nowGB)]
    /\ UNCHANGED <<clock, redisEnabled, status, store, cfg, res, run, checks, serial, cloud, limiter, admits, retry>>

\* getBucket line 63: HMSET of the new bucket
Hmset(p) ==
    /\ pc[p] = "hmset"
    /\ pc' = [pc EXCEPT ![p] = "expire"]
    /\ store' = [store EXCEPT ![GetKey(chk[p].ident)] = HmsetNewBucket(@, chk[p].bucket)]
    /\ UNCHANGED <<clock, redisEnabled, status, cfg, chk, res, run, checks, serial, cloud, limiter, admits, retry>>

\* getBucket lines 64-69: EXPIRE, and the new bucket is returned
Expire(p) ==
    /\ pc[p] = "expire"
    /\ pc' = [pc EXCEPT ![p] = "exec"]
    /\ store' = [store EXCEPT ![GetKey(chk[p].ident)] = ExpireKey(@, clock)]
    /\ UNCHANGED <<clock, redisEnabled, status, cfg, chk, res, run, checks, serial, cloud, limiter, admits, retry>>

\* getBucket lines 90-99: HGETALL, HMSET or EXPIRE threw; the full bucket of
\* the caller's policy is returned instead
GetBucketFail(p) ==
    /\ pc[p] \in {"hgetall", "hmset", "expire"}
    /\ pc' = [pc EXCEPT ![p] = "exec"]
    /\ chk' = [chk EXCEPT ![p].bucket = NewBucket(chk[p].limits, chk[p].nowGB),
                          ![p].opFailed = TRUE, ![p].failedOp = pc[p]]
    /\ UNCHANGED <<clock, redisEnabled, status, store, cfg, res, run, checks, serial, cloud, limiter, admits, retry>>

\* Mutant of Exec: multi.exec() is not awaited and its write is not in the
\* store when the decision is returned.
ExecNotAwaited(p) ==
    /\ pc[p] = "exec"
    /\ LET d == Decide(chk[p].bucket, chk[p].now)
           result == [allowed |-> d.allowed, retryAfter |-> d.retryAfter,
                      remaining |-> d.remaining]
       IN /\ chk' = [chk EXCEPT ![p] = Returned(@, result, d.tokens)]
          /\ res' = [res EXCEPT ![p] = Respond(result, chk[p].limits)]
          /\ run' = [run EXCEPT ![GetKey(chk[p].ident)] =
                        Record(@, chk[p].created, chk[p].now)]
          /\ serial' = SerialExec(serial, d.allowed)
          /\ admits' = Admit(admits, result, chk[p].now, clock)
    /\ pc' = [pc EXCEPT ![p] = "done"]
    /\ UNCHANGED <<clock, redisEnabled, status, store, cfg, checks, cloud, limiter, retry>>

\* isAllowed lines 130-191 and middleware lines 230-251: the refill, the
\* MULTI (HMSET tokens lastRefill, EXPIRE), the decision, the response
Exec(p) ==
    /\ pc[p] = "exec"
    /\ LET d == Decide(chk[p].bucket, chk[p].now)
           result == [allowed |-> d.allowed, retryAfter |-> d.retryAfter,
                      remaining |-> d.remaining]
       IN /\ store' = [store EXCEPT ![GetKey(chk[p].ident)] =
                          ExpireKey(HmsetTokens(@, d.tokens, chk[p].now), clock)]
          /\ chk' = [chk EXCEPT ![p] = Returned(@, result, d.tokens)]
          /\ res' = [res EXCEPT ![p] = Respond(result, chk[p].limits)]
          /\ run' = [run EXCEPT ![GetKey(chk[p].ident)] =
                        Record(@, chk[p].created, chk[p].now)]
          /\ serial' = SerialExec(serial, d.allowed)
          /\ admits' = Admit(admits, result, chk[p].now, clock)
    /\ pc' = [pc EXCEPT ![p] = "done"]
    /\ UNCHANGED <<clock, redisEnabled, status, cfg, checks, cloud, limiter, retry>>

\* isAllowed lines 162 / 181 throw, middleware lines 252-266: the catch block
ExecFail(p) ==
    /\ pc[p] = "exec"
    /\ pc' = [pc EXCEPT ![p] = "done"]
    /\ chk' = [chk EXCEPT ![p] = Thrown(@)]
    /\ res' = [res EXCEPT ![p] = Caught(cfg.failOpen, isRedisAvailable)]
    /\ UNCHANGED <<clock, redisEnabled, status, store, cfg, run, checks, serial, cloud, limiter, admits, retry>>

\* client.on('error'): the flag is cleared only on a refused connection once
\* connectionAttempts has reached MAX_CONNECTION_ATTEMPTS
CloudError(code) ==
    /\ cloud.status # "end"
    /\ cloud' = [cloud EXCEPT
                    !.redisEnabled =
                        IF /\ cloud.handlers
                           /\ code = "ECONNREFUSED"
                           /\ cloud.connectionAttempts >= MAX_CONNECTION_ATTEMPTS
                        THEN FALSE ELSE @,
                    !.errorSince = TRUE]
    /\ UNCHANGED <<clock, redisEnabled, status, store, cfg, pc, chk, res, run, checks, serial, limiter, admits, retry>>

\* The connection closes or an attempt to connect fails: ioredis asks
\* retryStrategy with the next attempt count, and either schedules a
\* reconnection or ends the client.
CloudClose ==
    /\ cloud.status \in {"connecting", "connect", "ready"}
    /\ cloud.retryAttempts <= MaxRetriesEnv + 1
    /\ LET times == cloud.retryAttempts + 1
           delay == RetryStrategy(times, cloud)
       IN cloud' = [cloud EXCEPT
                      !.retryAttempts = times,
                      !.status = IF delay = Null THEN "end" ELSE "reconnecting",
                      !.reconnects = IF delay = Null THEN @ ELSE @ + 1]
    /\ UNCHANGED <<clock, redisEnabled, status, store, cfg, pc, chk, res, run, checks, serial, limiter, admits, retry>>

\* The scheduled reconnection starts.
CloudReconnect ==
    /\ cloud.status = "reconnecting"
    /\ cloud' = [cloud EXCEPT !.status = "connecting"]
    /\ UNCHANGED <<clock, redisEnabled, status, store, cfg, pc, chk, res, run, checks, serial, limiter, admits, retry>>

\* client.on('connect')
CloudConnect ==
    /\ cloud.status = "connecting"
    /\ cloud' = [cloud EXCEPT !.status = "connect",
                              !.redisEnabled = IF cloud.handlers THEN TRUE ELSE @,
                              !.errorSince = FALSE]
    /\ UNCHANGED <<clock, redisEnabled, status, store, cfg, pc, chk, res, run, checks, serial, limiter, admits, retry>>

\* client.on('ready'); ioredis starts its attempt count again
CloudReady ==
    /\ cloud.status = "connect"
    /\ cloud' = [cloud EXCEPT !.status = "ready",
                              !.redisEnabled = IF cloud.handlers THEN TRUE ELSE @,
                              !.connectionAttempts = IF cloud.handlers THEN 0 ELSE @,
                              !.retryAttempts = 0,
                              !.errorSince = FALSE, !.reconnects = 0]
    /\ UNCHANGED <<clock, redisEnabled, status, store, cfg, pc, chk, res, run, checks, serial, limiter, admits, retry>>

\* line 496: apiCallFn resolves and its result is returned
ApiCallResolves ==
    /\ retry.pc = "call"
    /\ retry' = [retry EXCEPT !.pc = "returned", !.calls = @ + 1]
    /\ UNCHANGED <<clock, redisEnabled, status, store, cfg, pc, chk, res, run, checks, serial, cloud, limiter, admits>>

\* lines 496-539: apiCallFn rejects
ApiCallRejects(error) ==
    /\ retry.pc = "call"
    /\ retry.calls <= MaxRetriesOpt + 1
    /\ retry' = Catch(retry, error)
    /\ UNCHANGED <<clock, redisEnabled, status, store, cfg, pc, chk, res, run, checks, serial, cloud, limiter, admits>>

\* line 538: the timer of setTimeout(finalDelayMs) fires
Wake ==
    /\ retry.pc = "wait"
    /\ retry' = [retry EXCEPT !.pc = "call"]
    /\ UNCHANGED <<clock, redisEnabled, status, store, cfg, pc, chk, res, run, checks, serial, cloud, limiter, admits>>

-----------------------------------------------------------------------------
(* Specifications *)

Step(p) ==
    \/ Begin(p)
    \/ GetBucketNow(p)
    \/ Hgetall(p)
    \/ Hmset(p)
    \/ Expire(p)
    \/ Exec(p)

\* Several admission checks interleave.
Next ==
    \/ Tick
    \/ \E p \in Procs : Step(p)

Spec == Init /\ [][Next]_vars

\* One admission check at a time.
NextSeq ==
    \/ Tick
    \/ Step("p1")

SpecSeq == InitSeq /\ [][NextSeq]_vars

\* POST /chat, one admission check at a time.
NextChat ==
    \/ Tick
    \/ BeginChat("p1")
    \/ GetBucketNow("p1")
    \/ Hgetall("p1")
    \/ Hmset("p1")
    \/ Expire("p1")
    \/ Exec("p1")

SpecChat == InitChat /\ [][NextChat]_vars

\* Admission checks of one caller interleave, next to the reference run.
SpecBurst == InitBurst /\ [][Next]_vars

\* One admission check at a time, any identifier and any policy.
SpecGuard == InitGuard /\ [][NextSeq]_vars

\* Admission checks of two callers interleave.
SpecIso == InitIso /\ [][Next]_vars

\* One admission check at a time; store operations can throw and the
\* connection can drop and come back.
NextMw ==
    \/ Tick
    \/ Step("p1")
    \/ GetBucketFail("p1")
    \/ ExecFail("p1")
    \/ RedisError
    \/ RedisClose
    \/ RedisConnect
    \/ RedisReady

SpecMw == InitMw /\ [][NextMw]_vars

-----------------------------------------------------------------------------
(* Properties *)

Done(p) == pc[p] = "done"

\* the admission check of p was decided by isAllowed
Decided(p) == Done(p) /\ chk[p].path = "decided"

KeyOf(p) == GetKey(chk[p].ident)

\* C1: after each of a sequence of non-overlapping isAllowed calls on one
\* identifier, made with one policy (capacity >= 1, rate > 0) and a clock
\* that never goes back, the stored token count is at least 0 and at most
\* the capacity.
C1_StoredTokensWithinCapacity ==
    \A p \in Procs :
        Decided(p) /\ store[KeyOf(p)].exists =>
            /\ 0 <= store[KeyOf(p)].tokens
            /\ store[KeyOf(p)].tokens <= chk[p].limits.bucketSize * Micro

\* C3: over all writes to one key (the creation in getBucket, the update in
\* isAllowed), the stored lastRefill never decreases.
C3_LastRefillNeverDecreases ==
    [][\A k \in Keys :
          store[k].exists /\ store'[k].exists =>
              store'[k].lastRefill >= store[k].lastRefill]_vars

\* C4: the isAllowed call that finds the key absent returns allowed = true
\* with remaining = capacity - 1, whatever the clock did since the check
\* began.
C4_ColdStartAllowsWithCapacityMinusOne ==
    \A p \in Procs :
        Decided(p) /\ chk[p].created =>
            /\ chk[p].result.allowed
            /\ chk[p].result.remaining = chk[p].limits.bucketSize - 1

\* C5: of the sequential calls that follow the creation of a full bucket of
\* capacity C and rate r within less than 1/r seconds, calls 1..C are allowed
\* with remaining C-1, ..., 0 and call C+1 is denied with remaining 0 and
\* retryAfter >= 1.
C5_BurstDrainsThenDenies ==
    \A p \in Procs :
        Decided(p) =>
            LET r == run[KeyOf(p)]
                C == chk[p].limits.bucketSize
                rate == chk[p].limits.refillRate
                d == chk[p].result
            IN  (r.last - r.start) * rate < Micro =>
                    /\ r.n <= C => d.allowed /\ d.remaining = C - r.n
                    /\ r.n = C + 1 =>
                           ~d.allowed /\ d.remaining = 0 /\ d.retryAfter >= 1

\* C2: when admission checks on one identifier interleave, the token count
\* a check writes is never negative and never above the capacity of the
\* bucket it read.  (Stated for the checks that read an existing bucket and
\* met no store error: run one at a time, these keep the bound.)
C2_InterleavedWritesWithinCapacity ==
    [][\A p \in Procs :
          /\ pc[p] = "exec" /\ pc'[p] = "done" /\ chk'[p].path = "decided"
          /\ ~chk[p].created /\ ~chk[p].opFailed
          => /\ 0 <= store'[KeyOf(p)].tokens
             /\ store'[KeyOf(p)].tokens <= chk[p].bucket.bucketSize * Micro]_vars

\* C6: on every response the limiter decided, X-RateLimit-Limit is the
\* capacity of the request's policy and X-RateLimit-Remaining is between 0
\* and that limit, whatever plan created the bucket.
C6_HeaderContract ==
    \A p \in Procs :
        Decided(p) =>
            /\ {"X-RateLimit-Limit", "X-RateLimit-Remaining"} \subseteq res[p].headers
            /\ res[p].limit = chk[p].limits.bucketSize
            /\ 0 <= res[p].remaining
            /\ res[p].remaining <= res[p].limit

\* the admission check of p was denied by isAllowed
Denied(p) == Decided(p) /\ ~chk[p].result.allowed

\* C7: Retry-After is set exactly on the denied checks: never on a request
\* that is forwarded, and on every 429 with a whole number of seconds >= 1.
C7_RetryAfterIffDenied ==
    \A p \in Procs :
        Done(p) =>
            /\ "Retry-After" \in res[p].headers <=> Denied(p)
            /\ res[p].status = 429 <=> Denied(p)
            /\ Denied(p) => res[p].retryAfter >= 1
            /\ res[p].nextCalls > 0 => "Retry-After" \notin res[p].headers

C7_Witness ==
    \E p \in Procs :
        Denied(p) /\ "Retry-After" \in res[p].headers /\ res[p].retryAfter >= 1

\* C8: when isAllowed returns allowed = false the middleware answers 429
\* with the body {error: 'Too Many Requests', retryAfter} and does not call
\* next.
C8_DenialIs429NotForwarded ==
    \A p \in Procs :
        Denied(p) =>
            /\ res[p].status = 429
            /\ res[p].body = [error |-> "Too Many Requests",
                              retryAfter |-> chk[p].result.retryAfter]
            /\ res[p].nextCalls = 0
            /\ res[p].nextErrors = 0

C8_Witness ==
    \E p \in Procs :
        Denied(p) /\ res[p].status = 429 /\ res[p].body.error = "Too Many Requests"

\* C9: with failOpen = false, a check that finds the store unavailable is
\* answered 503 with {error: 'rate limiter unavailable'} and not forwarded.
C9_FailClosedRejectsWith503 ==
    \A p \in Procs :
        Done(p) /\ ~cfg.failOpen /\ chk[p].path = "skipped" =>
            /\ res[p].status = 503
            /\ res[p].body.error = "rate limiter unavailable"
            /\ res[p].nextCalls = 0

\* C10: with failOpen = true, a check that finds the store unavailable, or
\* during which a store operation throws, forwards the request exactly once
\* and sets none of the rate-limit headers.
C10_FailOpenForwardsWithoutHeaders ==
    \A p \in Procs :
        Done(p) /\ cfg.failOpen /\ (chk[p].path = "skipped" \/ chk[p].opFailed) =>
            /\ res[p].nextCalls = 1
            /\ res[p].nextErrors = 0
            /\ res[p].headers = {}

\* C11: with failOpen = false, a check that passed the availability gate and
\* during which one store operation throws (the read, the creation write, the
\* time-to-live, the update pipeline) is answered 503 and not forwarded.
C11_StoreErrorRejectsWith503 ==
    \A p \in Procs :
        Done(p) /\ ~cfg.failOpen /\ chk[p].failedOp # "none" =>
            /\ res[p].status = 503
            /\ res[p].nextCalls = 0
            /\ res[p].nextErrors = 0

\* C12: when the store's hash read (hgetall) fails, the middleware writes no
\* response status: res.status is never called for that request.
C12_HgetallFailureWritesNoStatus ==
    \A p \in Procs :
        Done(p) /\ chk[p].failedOp = "hgetall" => res[p].status = 0

C17_NoKeyWithoutTTL ==
    \A k \in Keys : store[k].exists => store[k].ttl # NoTTL

\* C18: the middleware never hands an error to next: a check during which
\* something throws ends as a pass-through (failOpen = true) or as a 503
\* (failOpen = false).
C18_ErrorsNeverReachNext ==
    \A p \in Procs :
        Done(p) =>
            /\ res[p].nextErrors = 0
            /\ chk[p].path = "caught" =>
                   IF cfg.failOpen
                   THEN res[p].nextCalls = 1 /\ res[p].status = 0
                   ELSE res[p].nextCalls = 0 /\ res[p].status = 503

\* C20: on an existing bucket whose lastRefill is not after the check's
\* timestamp, isAllowed credits elapsed time x rate, capped at the bucket's
\* capacity; when the refilled count is at least one token it allows, stores
\* the refilled count minus one and reports its floor as remaining.
C20_RefillThenConsumeOne ==
    [][\A p \in Procs :
          /\ pc[p] = "exec" /\ pc'[p] = "done" /\ chk'[p].path = "decided"
          /\ ~chk[p].created /\ ~chk[p].opFailed
          /\ chk[p].bucket.lastRefill <= chk[p].now
          => LET b == chk[p].bucket
                 credited == (chk[p].now - b.lastRefill) * b.refillRate
                 refilled == IF b.tokens + credited > b.bucketSize * Micro
                             THEN b.bucketSize * Micro
                             ELSE b.tokens + credited
             IN  /\ chk'[p].result.allowed <=> refilled >= Micro
                 /\ refilled >= Micro =>
                        /\ store'[KeyOf(p)].tokens = refilled - Micro
                        /\ store'[KeyOf(p)].lastRefill = chk[p].now
                        /\ chk'[p].result.remaining = (refilled - Micro) \div Micro
                        /\ res'[p].remaining = (refilled - Micro) \div Micro]_vars

C20_Witness ==
    \E p \in Procs :
        /\ Decided(p) /\ ~chk[p].created /\ ~chk[p].opFailed
        /\ chk[p].result.allowed
        /\ run[KeyOf(p)].start < run[KeyOf(p)].last
        /\ store[KeyOf(p)].exists
        /\ store[KeyOf(p)].tokens = chk[p].tokens
        /\ chk[p].tokens % Micro # 0

\* C13: two different identifiers never share token state: a step of a check
\* on identifier b changes no key but prefix+b, and the bucket the check
\* decides on is the one read under prefix+b, so the bucket of another
\* identifier a is what it would be had no check on b run.
C13_IdentifiersAreIsolated ==
    [][/\ \A id \in Identifiers :
             store'[GetKey(id)] # store[GetKey(id)] =>
                 \/ clock' # clock
                 \/ \E p \in Procs : pc'[p] # pc[p] /\ chk[p].ident = id
       /\ \A id \in Identifiers :
             run'[GetKey(id)] # run[GetKey(id)] =>
                 \E p \in Procs : pc'[p] # pc[p] /\ chk[p].ident = id
       /\ \A p \in Procs :
             pc[p] = "hgetall" /\ pc'[p] = "exec" =>
                 /\ chk'[p].bucket.tokens = store[GetKey(chk[p].ident)].tokens
                 /\ chk'[p].bucket.lastRefill =
                        store[GetKey(chk[p].ident)].lastRefill]_vars

C13_Witness ==
    \E p, q \in Procs :
        /\ Decided(p) /\ Decided(q)
        /\ chk[p].ident # chk[q].ident
        /\ store[KeyOf(p)].exists /\ store[KeyOf(q)].exists
        /\ store[KeyOf(p)].lastRefill # store[KeyOf(q)].lastRefill

\* the admission check of p is one of POST /chat and has finished
ChatDone(p) == Done(p) /\ chk[p].req # NoRequest

\* C14: the identifier of a request is the literal value of its x-api-key
\* header when the header is present; otherwise it is the client address with
\* a leading '::ffff:' removed and lowercased, so that '::ffff:a' and 'a' are
\* checked against the same bucket.
C14_IdentifierIsKeyOrLowercasedAddress ==
    \A p \in Procs :
        ChatDone(p) =>
            LET req == chk[p].req
                lower(c) == CASE c = "K" -> "k" [] c = "E" -> "e" [] OTHER -> c
                lowercased(str) == [i \in 1..Len(str) |-> lower(str[i])]
                mapped == Len(req.ip) >= 7 /\ SubSeq(req.ip, 1, 7) = V4Mapped
                stripped == IF mapped THEN SubSeq(req.ip, 8, Len(req.ip))
                            ELSE req.ip
            IN  IF req.apiKey.present
                THEN chk[p].ident = req.apiKey.value
                ELSE chk[p].ident = lowercased(stripped)

\* C14, as the code has it: the identifier is the x-api-key header when the
\* header is present and not empty; otherwise it is the client address with
\* a leading '::ffff:' removed and its case unchanged, so that '::ffff:a' and
\* 'a' are checked against the same bucket.
C14_IdentifierIsKeyOrStrippedAddress ==
    \A p \in Procs :
        ChatDone(p) =>
            LET req == chk[p].req
                mapped == Len(req.ip) >= 7 /\ SubSeq(req.ip, 1, 7) = V4Mapped
            IN
            IF req.apiKey.present /\ req.apiKey.value # << >>
            THEN chk[p].ident = req.apiKey.value
            ELSE /\ \/ req.ip = V4Mapped \o chk[p].ident
                    \/ req.ip = chk[p].ident /\ ~mapped
                 /\ \A other \in Requests :
                        ~Truthy(other.apiKey) /\ other.ip = V4Mapped \o req.ip =>
                            GetKey(KeyGenerator(other)) = KeyOf(p)

C14_Witness ==
    \E p \in Procs :
        /\ ChatDone(p) /\ Decided(p)
        /\ chk[p].req.apiKey = Str(<< >>)
        /\ chk[p].req.ip = V4Mapped \o <<"1">>
        /\ chk[p].ident = <<"1">>
        /\ store[KeyOf(p)].exists

\* C15: a request of POST /chat whose plan is missing or unknown is checked
\* against the free limits (capacity 10, 0.1 tokens/s) and is admitted or
\* denied as a free request is; an unknown plan never makes the check fail.
C15_UnknownPlanGetsFreeLimits ==
    \A p \in Procs :
        ChatDone(p) /\ chk[p].req.plan \notin {Str(Free), Str(Pro), Str(Enterprise)} =>
            /\ chk[p].path = "decided"
            /\ chk[p].limits = [bucketSize |-> 10, refillRate |-> 100]
            /\ res[p].limit = 10
            /\ res[p].nextErrors = 0

\* C19: when checks on one identifier overlap in time, the number of checks
\* admitted, in the burst and after it, exceeds the number a serial
\* execution of the same checks at the same times admits by at most N - 1,
\* N being the number of checks that overlapped.
C19_OverAdmissionAtMostBurstMinusOne ==
    ~serial.expired =>
        serial.allowed - serial.admitted <=
            (IF serial.burst >= 1 THEN serial.burst - 1 ELSE 0)

C19_Witness ==
    /\ \A p \in Procs : pc[p] \in {"idle", "done"}
    /\ ~serial.expired
    /\ serial.burst >= 2
    /\ serial.allowed = serial.admitted + serial.burst - 1

\* C21: on a denial the reported retryAfter is ceil((1 - refilled) / rate):
\* the least whole number of seconds s >= 1 with refilled + s x rate >= 1
\* (2 for the 31st request of the pro plan within one second of a full
\* bucket: 30 tokens taken, less than half a token refilled).
C21_RetryAfterIsLeastWholeSeconds ==
    [][/\ \A p \in Procs :
             /\ pc[p] = "exec" /\ pc'[p] = "done" /\ chk'[p].path = "decided"
             /\ ~chk'[p].result.allowed
             => LET b == chk[p].bucket
                    sum == b.tokens + (chk[p].now - b.lastRefill) * b.refillRate
                    refilled == IF sum > b.bucketSize * Micro
                                THEN b.bucketSize * Micro ELSE sum
                    perSecond == 1000 * b.refillRate
                    s == chk'[p].result.retryAfter
                IN  /\ s >= 1
                    /\ refilled + s * perSecond >= Micro
                    /\ refilled + (s - 1) * perSecond < Micro
                    /\ res'[p].retryAfter = s
                    /\ res'[p].body.retryAfter = s
       /\ \A ms \in {0, 1, 500, 999} :
             LET pro == PlanTable[Pro]
                 drained == [tokens |-> 0, lastRefill |-> 0,
                             bucketSize |-> pro.bucketSize,
                             refillRate |-> pro.refillRate]
             IN  Decide(drained, ms).retryAfter = 2]_vars

C21_Witness ==
    \E p \in Procs :
        /\ Denied(p)
        /\ chk[p].result.retryAfter >= 2
        /\ chk[p].tokens > 0

\* C22: when a check's timestamp is earlier than the lastRefill of the bucket
\* it read, the elapsed time counts as zero: the refill step neither adds
\* nor removes tokens, and the stored lastRefill is not moved backwards.
C22_EarlierTimestampCountsAsZero ==
    [][\A p \in Procs :
          /\ pc[p] = "exec" /\ pc'[p] = "done" /\ chk'[p].path = "decided"
          /\ chk[p].now < chk[p].bucket.lastRefill
          => LET b == chk[p].bucket
                 refilled == IF b.tokens > b.bucketSize * Micro
                             THEN b.bucketSize * Micro ELSE b.tokens
                 taken == IF chk'[p].result.allowed THEN Micro ELSE 0
             IN  /\ chk'[p].result.allowed <=> refilled >= Micro
                 /\ store'[KeyOf(p)].tokens = refilled - taken
                 /\ store'[KeyOf(p)].lastRefill >= b.lastRefill]_vars

\* C23: a field of a loaded bucket hash that is missing, non-numeric or
\* negative is replaced by the caller's policy value (by now for lastRefill)
\* before the refill computation, so the computation never runs on a
\* negative field.
C23_LoadedFieldsAreNeverNegative ==
    \A p \in Procs :
        pc[p] = "exec" /\ ~chk[p].created /\ ~chk[p].opFailed =>
            /\ chk[p].bucket.tokens >= 0
            /\ chk[p].bucket.lastRefill >= 0
            /\ chk[p].bucket.bucketSize >= 0
            /\ chk[p].bucket.refillRate >= 0

\* C24: for a live bucket the capacity and the rate stored in the bucket,
\* not the caller's policy values, are the ones this call computes with; the
\* caller's values are used only by the check that creates the bucket.
C24_StoredLimitsWin ==
    [][\A p \in Procs :
          pc[p] = "hgetall" /\ pc'[p] = "exec" /\ ~chk'[p].opFailed =>
              LET h == store[KeyOf(p)] IN
              /\ h.hasLimits
              /\ chk'[p].bucket.bucketSize = h.bucketSize
              /\ chk'[p].bucket.refillRate = h.refillRate]_vars

\* C25: once a bucket exists, no step of an admission check changes its
\* stored bucketSize or refillRate, callers with different policies that
\* race on the identifier included; only the expiry of the key ends them.
C25_StoredLimitsNeverChange ==
    [][\A k \in Keys :
          store[k].exists /\ store[k].hasLimits /\ clock' = clock =>
              /\ store'[k].exists
              /\ store'[k].hasLimits
              /\ store'[k].bucketSize = store[k].bucketSize
              /\ store'[k].refillRate = store[k].refillRate]_vars

\* C26: a denied check consumes nothing: it stores the refilled count (not
\* less than the count it read, when lastRefill <= now) and lastRefill =
\* now, so that the window it credited is not credited again, and reports
\* remaining = 0.
C26_DenialStoresRefilledCount ==
    [][\A p \in Procs :
          /\ pc[p] = "exec" /\ pc'[p] = "done" /\ chk'[p].path = "decided"
          /\ ~chk'[p].result.allowed
          => LET b == chk[p].bucket
                 sum == b.tokens + (chk[p].now - b.lastRefill) * b.refillRate
                 refilled == IF sum > b.bucketSize * Micro
                             THEN b.bucketSize * Micro ELSE sum
             IN  /\ store'[KeyOf(p)].exists
                 /\ store'[KeyOf(p)].tokens = refilled
                 /\ store'[KeyOf(p)].lastRefill = chk[p].now
                 /\ b.lastRefill <= chk[p].now =>
                        store'[KeyOf(p)].tokens >= b.tokens
                 /\ chk'[p].result.remaining = 0
                 /\ res'[p].remaining = 0]_vars

C26_Witness ==
    \E p \in Procs :
        /\ Denied(p)
        /\ store[KeyOf(p)].exists
        /\ store[KeyOf(p)].tokens = chk[p].tokens
        /\ store[KeyOf(p)].lastRefill = run[KeyOf(p)].last
        /\ run[KeyOf(p)].last > run[KeyOf(p)].start
        /\ chk[p].tokens > 0
        /\ res[p].remaining = 0

\* the admission check of p got past the availability gate and has finished
Checked(p) == Done(p) /\ chk[p].path \in {"decided", "caught"}

\* C27: when the identifier of the request is empty, the middleware answers
\* 500, does not forward the request and performs no store operation.
C27_EmptyIdentifierRejectedWith500 ==
    \A p \in Procs :
        Checked(p) /\ chk[p].ident = << >> =>
            /\ res[p].status = 500
            /\ res[p].nextCalls = 0
            /\ ~store[GetKey(<< >>)].exists

\* C28: when the policy resolver returns a capacity <= 0 or a rate <= 0, the
\* check is answered 500, the request is not forwarded, and no bucket is
\* created or updated with those values.
C28_BadPolicyRejectedWith500 ==
    \A p \in Procs :
        Checked(p) /\ (chk[p].limits.bucketSize <= 0 \/ chk[p].limits.refillRate <= 0) =>
            /\ res[p].status = 500
            /\ res[p].nextCalls = 0
            /\ ~(/\ store[KeyOf(p)].exists
                 /\ store[KeyOf(p)].hasLimits
                 /\ store[KeyOf(p)].bucketSize = chk[p].limits.bucketSize
                 /\ store[KeyOf(p)].refillRate = chk[p].limits.refillRate)

\* C29: in every admission check the limiter decided, X-RateLimit-Remaining
\* and X-RateLimit-Limit, and Retry-After on a denial, are set on the
\* response before the status is written or the request is forwarded.
C29_HeadersBeforeStatusOrNext ==
    \A p \in Procs :
        Decided(p) =>
            LET c == res[p].calls
                sets == {"set X-RateLimit-Remaining", "set X-RateLimit-Limit",
                         "set Retry-After"}
                at(call) == { i \in DOMAIN c : c[i] = call }
                outcome == { i \in DOMAIN c : c[i] \notin sets }
            IN  /\ at("set X-RateLimit-Remaining") # {}
                /\ at("set X-RateLimit-Limit") # {}
                /\ Denied(p) => at("set Retry-After") # {}
                /\ outcome # {}
                /\ \A i \in DOMAIN c, j \in outcome : c[i] \in sets => i < j

C29_Witness ==
    \E p \in Procs :
        /\ Denied(p)
        /\ res[p].calls = <<"set X-RateLimit-Remaining", "set X-RateLimit-Limit",
                            "set Retry-After", "status", "json">>

\* C30: an admission check computes, writes, then returns: when the decision
\* is returned and the request forwarded or rejected, the bucket write of
\* that check is in the store; nothing is answered before; and no step of a
\* check that has returned writes to the store.
C30_WriteThenReturn ==
    [][/\ \A p \in Procs :
             pc[p] \notin {"idle", "done"} => res[p].calls = << >>
       /\ \A p \in Procs :
             pc[p] = "exec" /\ pc'[p] = "done" /\ chk'[p].path = "decided" =>
                 /\ store'[KeyOf(p)].exists
                 /\ store'[KeyOf(p)].tokens = chk'[p].tokens
                 /\ store'[KeyOf(p)].lastRefill = chk[p].now
                 /\ store'[KeyOf(p)].ttl = clock + KeyExpiry * 1000
                 /\ res'[p].calls # << >>
       /\ \A k \in Keys :
             store'[k] # store[k] /\ clock' = clock =>
                 \E p \in Procs :
                     /\ pc[p] \in {"hmset", "expire", "exec"}
                     /\ pc'[p] # pc[p]
                     /\ KeyOf(p) = k]_vars

C30_Witness ==
    \E p, q \in Procs :
        /\ Decided(p) /\ res[p].calls # << >>
        /\ store[KeyOf(p)].exists
        /\ store[KeyOf(p)].tokens = chk[p].tokens
        /\ pc[q] = "exec" /\ KeyOf(q) = KeyOf(p)

\* The Redis Cloud client under every setting of its retry strategy.
InitClient ==
    /\ clock = 0
    /\ redisEnabled = TRUE
    /\ status = "ready"
    /\ store = [k \in Keys |-> Absent]
    /\ pc = [p \in Procs |-> "idle"]
    /\ chk = [p \in Procs |-> IdleChk]
    /\ res = [p \in Procs |-> NoResponse]
    /\ run = [k \in Keys |-> NoRun]
    /\ checks = 0
    /\ serial = NoSerial
    /\ retry = NoRetry
    /\ admits = NoAdmits
    /\ limiter = BuiltLimiter
    /\ cfg = [failOpen |-> FALSE, policies |-> Policies, idents |-> OneIdentifier]
    /\ cloud \in { [InitCloud EXCEPT !.strategy = on, !.maxRetries = n, !.handlers = h] :
                    on \in BOOLEAN, n \in 0..MaxRetriesEnv, h \in BOOLEAN }

NextClient ==
    \/ \E code \in ErrorCodes : CloudError(code)
    \/ CloudClose
    \/ CloudReconnect
    \/ CloudConnect
    \/ CloudReady

SpecClient == InitClient /\ [][NextClient]_vars

\* createRateLimiter lines 195-196: a middleware built with or without an
\* injected client, while the process-wide client is ready or not; then one
\* admission check at a time.
InitInject ==
    /\ clock = 0
    /\ redisEnabled \in BOOLEAN
    /\ status \in {"connecting", "ready"}
    /\ store = [k \in Keys |-> Absent]
    /\ pc = [p \in Procs |-> "idle"]
    /\ chk = [p \in Procs |-> IdleChk]
    /\ res = [p \in Procs |-> NoResponse]
    /\ run = [k \in Keys |-> NoRun]
    /\ checks = 0
    /\ serial = NoSerial
    /\ retry = NoRetry
    /\ admits = NoAdmits
    /\ cloud = InitCloud
    /\ limiter \in { Constructor(injected) : injected \in BOOLEAN }
    /\ cfg \in { [failOpen |-> f, policies |-> {pol}, idents |-> OneIdentifier] :
                 f \in BOOLEAN, pol \in Policies }

NextInject ==
    \/ Tick
    \/ RedisError
    \/ RedisClose
    \/ RedisConnect
    \/ RedisReady
    \/ Step("p1")

SpecInject == InitInject /\ [][NextInject]_vars

\* a policy whose rate does not refill the bucket within the time-to-live
SlowPolicy == [bucketSize |-> 1, refillRate |-> 500]

\* One caller with one policy, one admission check at a time, over buckets
\* that expire; the admissions are followed.
InitTtl ==
    /\ clock = 0
    /\ redisEnabled = TRUE
    /\ status = "ready"
    /\ store = [k \in Keys |-> Absent]
    /\ pc = [p \in Procs |-> "idle"]
    /\ chk = [p \in Procs |-> IdleChk]
    /\ res = [p \in Procs |-> NoResponse]
    /\ run = [k \in Keys |-> NoRun]
    /\ checks = 0
    /\ serial = NoSerial
    /\ retry = NoRetry
    /\ cloud = InitCloud
    /\ limiter = BuiltLimiter
    /\ admits = [NoAdmits EXCEPT !.on = TRUE]
    /\ cfg \in { [failOpen |-> FALSE, policies |-> {pol}, idents |-> OneIdentifier] :
                 pol \in Policies \cup {SlowPolicy} }

NextTtl ==
    \/ TickTtl
    \/ Step("p1")

SpecTtl == InitTtl /\ [][NextTtl]_vars

\* withRateLimitRetry called with each maxRetries and either backoff.
InitRetry ==
    /\ clock = 0
    /\ redisEnabled = TRUE
    /\ status = "ready"
    /\ store = [k \in Keys |-> Absent]
    /\ pc = [p \in Procs |-> "idle"]
    /\ chk = [p \in Procs |-> IdleChk]
    /\ res = [p \in Procs |-> NoResponse]
    /\ run = [k \in Keys |-> NoRun]
    /\ checks = 0
    /\ serial = NoSerial
    /\ cloud = InitCloud
    /\ limiter = BuiltLimiter
    /\ admits = NoAdmits
    /\ cfg = [failOpen |-> FALSE, policies |-> Policies, idents |-> OneIdentifier]
    /\ retry \in { [NoRetry EXCEPT !.maxRetries = n, !.useExponentialBackoff = b] :
                    n \in 0..MaxRetriesOpt, b \in BOOLEAN }

NextRetry ==
    \/ ApiCallResolves
    \/ \E error \in Errors : ApiCallRejects(error)
    \/ Wake

SpecRetry == InitRetry /\ [][NextRetry]_vars

\* C31: a store operation that fails during an admission check is issued a
\* second time by the same check before the check gives the store up: the
\* step in which an operation fails for the first time stays at that
\* operation.
C31_FailedOperationIsRetriedOnce ==
    [][\A p \in Procs :
          /\ pc[p] \in {"hgetall", "hmset", "expire", "exec"}
          /\ chk[p].failedOp = "none"
          /\ chk'[p].failedOp # "none"
          => pc'[p] = pc[p]]_vars

\* C32: isRedisAvailable() is true exactly when the client's status is
\* 'ready' and no error event was seen since the last connect or ready
\* event.
C32_AvailableIffReadyAndNoErrorSince ==
    CloudIsRedisAvailable <=> (cloud.status = "ready" /\ ~cloud.errorSince)

\* C33: since the client was last ready, at most maxRetries reconnections
\* are scheduled; the close that follows the last of them ends the client,
\* and from then on no reconnection is scheduled and isRedisAvailable() is
\* false.
C33_ReconnectionIsBounded ==
    [][/\ cloud'.reconnects <= cloud'.maxRetries
       /\ ~cloud'.strategy => cloud'.reconnects = 0
       /\ cloud'.retryAttempts > cloud.retryAttempts
          /\ cloud.reconnects >= cloud.maxRetries
          => cloud'.status = "end" /\ cloud'.reconnects = cloud.reconnects
       /\ cloud'.status = "end" => ~CloudIsRedisAvailable'
       /\ cloud.status = "end" => cloud'.status = "end"]_vars

C33_Witness ==
    /\ cloud.status = "end"
    /\ cloud.strategy
    /\ cloud.maxRetries >= 2
    /\ cloud.reconnects = cloud.maxRetries
    /\ cloud.retryAttempts = cloud.maxRetries + 1

\* C34: a middleware built with an injected client holds that client as
\* this.redis, and each of its admission checks reads and writes the bucket
\* through it, whatever the state of the process-wide client when the
\* middleware was built or when the request arrives.
C34_InjectedClientIsUsed ==
    /\ limiter.injected => limiter.redis = "options.redis"
    /\ \A p \in Procs :
           limiter.injected /\ Done(p) => chk[p].path # "skipped"

\* C35: an invocation of the middleware ends with exactly one outcome: next
\* was called once (with or without an error) and no status was written, or
\* one status was written, with its body, and next was not called; before
\* it ends, nothing was called.
C35_ExactlyOneOutcome ==
    \A p \in Procs :
        LET c == res[p].calls
            nexts == { i \in DOMAIN c : c[i] \in {"next", "next(error)"} }
            writes == { i \in DOMAIN c : c[i] = "status" }
            bodies == { i \in DOMAIN c : c[i] = "json" }
        IN  /\ pc[p] \notin {"idle", "done"} => c = << >>
            /\ Done(p) =>
                  /\ Cardinality(nexts) + Cardinality(writes) = 1
                  /\ Cardinality(bodies) = Cardinality(writes)
                  /\ res[p].nextCalls + res[p].nextErrors = Cardinality(nexts)
                  /\ (res[p].status # 0) <=> (writes # {})

C35_Witness ==
    \E p \in Procs :
        /\ Done(p)
        /\ chk[p].path = "caught"
        /\ ~cfg.failOpen
        /\ res[p].calls = <<"next(error)">>

\* C36: in a sequential run with one policy (C, r) the checks allowed within
\* any stretch of T seconds are at most C + r x T, also when the key expires
\* and is created again.  The shortest stretch that holds the allowed checks
\* i..j runs from the beginning of check i to the return of check j.
C36_AdmittedAtMostCapacityPlusRate ==
    LET policy == CHOOSE pol \in cfg.policies : TRUE IN
    \A i, j \in DOMAIN admits.at :
        i <= j =>
            (j - i + 1) * Micro
                <= policy.bucketSize * Micro
                   + policy.refillRate * (admits.at[j].returned - admits.at[i].began)

\* C37: after a check was denied with retryAfter = s, the next check on the
\* identifier, begun at least s seconds after that denial was returned, is
\* allowed when the capacity is at least 1.
C37_RetryHintIsSound ==
    [][\A p \in Procs :
          /\ pc[p] = "exec" /\ pc'[p] = "done"
          /\ admits.last.any /\ ~admits.last.allowed
          /\ chk[p].now >= admits.last.returned + admits.last.retryAfter * 1000
          /\ chk[p].limits.bucketSize >= 1
          => chk'[p].result.allowed]_vars

\* C38: a check during which a store operation failed leaves the bucket of
\* its identifier as it was before the check: from the failure on it writes
\* nothing, and the bucket it had begun to create (the time-to-live failed
\* after the write) is not left behind.
C38_FailedCheckLeavesBucketUnchanged ==
    [][\A p \in Procs :
          pc[p] \in {"hgetall", "hmset", "expire", "exec"} /\ pc'[p] # pc[p] =>
              /\ chk[p].opFailed \/ chk'[p].opFailed =>
                     store'[KeyOf(p)] = store[KeyOf(p)]
              /\ chk'[p].failedOp = "expire" => store'[KeyOf(p)] = Absent]_vars

\* C39: withRateLimitRetry calls apiCallFn at most maxRetries + 1 times; it
\* waits only after a rate-limit error it will retry; when it throws, it
\* throws the error apiCallFn last rejected with, at once when that is not a
\* rate-limit error and after maxRetries retries otherwise; when it returns,
\* every earlier call was rejected with a rate-limit error.
C39_RetryWrapperIsBounded ==
    /\ retry.calls <= retry.maxRetries + 1
    /\ retry.waits <= retry.maxRetries
    /\ retry.pc = "wait" => IsRateLimit(retry.error) = "true"
    /\ retry.pc = "returned" => retry.waits = retry.calls - 1
    /\ retry.pc = "thrown" =>
          /\ retry.thrown = "error"
          /\ retry.waits = retry.calls - 1
          /\ IsRateLimit(retry.error) = "true" => retry.calls = retry.maxRetries + 1

====
